---- MODULE Spec2Model ----
(***************************************************************************)
(* Model of the meal recommendation engine (src/ml/recommend.py) and of    *)
(* the HTTP boundary in front of it (src/ml/api_server.py).                *)
(*                                                                         *)
(* Encoding conventions                                                    *)
(*   - Python None for an object is the record None; a missing id is 0     *)
(*     (falsy in Python like None); a missing meal_type is "" (falsy).     *)
(*   - ratings are stored doubled (4.5 -> 9); recency weights are stored   *)
(*     multiplied by WeightScale, which is exact for ages that are         *)
(*     multiples of the half-life.                                         *)
(*   - sequences are 1-based, Python lists 0-based: the Python slice       *)
(*     s[a:b] is PySlice(s, a, b).                                         *)
(***************************************************************************)
EXTENDS Integers, Sequences, FiniteSets, TLC

\* ------------------------------------------------------------------ bounds
NumMeals == 3
MaxTopN == 3
MaxEvents == 3
NumThreads == 2

\* ------------------------------------------------------- program constants
MinTopN == 1
LimitTopN == 20
DefaultTopN == 5
recency_half_life_days == 30
WindowDays == 180
WeightScale == 2 ^ (WindowDays \div recency_half_life_days)

\* ------------------------------------------------------------ value spaces
None == [is_none |-> TRUE]
NoId == 0
NoType == ""
Meals == 1..NumMeals
KnownUser == NoId + 1
UnknownUser == KnownUser + 1
Threads == 1..NumThreads
ValidMealTypes == {"breakfast", "lunch", "dinner", "snack"}
StrategyTags == <<"hybrid", "collaborative_filtering", "content_based", "popular">>

\* ---------------------------------------------------------- generic helpers
Min(a, b) == IF a < b THEN a ELSE b
Max(a, b) == IF a > b THEN a ELSE b
Range(s) == {s[i] : i \in 1..Len(s)}

RECURSIVE SumSeq(_)
SumSeq(s) == IF s = <<>> THEN 0 ELSE Head(s) + SumSeq(Tail(s))

RECURSIVE Reverse(_)
Reverse(s) == IF s = <<>> THEN <<>> ELSE Reverse(Tail(s)) \o <<Head(s)>>

RECURSIVE SelectSeqBy(_, _)
\* the subsequence of s whose elements are in the set keep
SelectSeqBy(s, keep) ==
    IF s = <<>> THEN <<>>
    ELSE (IF Head(s) \in keep THEN <<Head(s)>> ELSE <<>>) \o SelectSeqBy(Tail(s), keep)

\* lexicographic "strictly less" on integer tuples of equal length
RECURSIVE LexLess(_, _)
LexLess(a, b) ==
    IF a = <<>> THEN FALSE
    ELSE IF Head(a) < Head(b) THEN TRUE
    ELSE IF Head(a) > Head(b) THEN FALSE
    ELSE LexLess(Tail(a), Tail(b))

\* Python s[a:b] for a >= 0 and any integer b (a negative stop counts from the end)
PySlice(s, a, b) ==
    LET n == Len(s)
        stop == IF b < 0 THEN Max(n + b, 0) ELSE Min(b, n)
        start == Min(a, n)
    IN SubSeq(s, start + 1, stop)

\* Python s[:n], pandas df.head(n)
TakeOffByOne(s, n) == PySlice(s, 0, n + 1)
Take(s, n) == PySlice(s, 0, n)

RECURSIVE InsertDesc(_, _, _)
InsertDesc(x, s, key) ==
    IF s = <<>> THEN <<x>>
    ELSE IF LexLess(key[Head(s)], key[x]) THEN <<x>> \o s
    ELSE <<Head(s)>> \o InsertDesc(x, Tail(s), key)

RECURSIVE StableSortDesc(_, _)
\* s sorted by descending key, elements with equal keys in their original order
StableSortDesc(s, key) ==
    IF s = <<>> THEN <<>>
    ELSE LET n == Len(s)
         IN InsertDesc(s[n], StableSortDesc(SubSeq(s, 1, n - 1), key), key)

\* np.argsort(v): indices by ascending value, equal values in index order
argsort(v) == StableSortDesc([i \in 1..Len(v) |-> i], [i \in 1..Len(v) |-> <<-v[i]>>])

\* ------------------------------------------------------------ dictionaries
EmptyDict == [m \in {} |-> 0]
\* Python d.get(k, default)
DictGet(d, k, default) == IF k \in DOMAIN d THEN d[k] ELSE default

\* ------------------------------------------------- artifacts on the disk
\* data/available_meals.csv: one row per meal; the attributes are fixed per id
MealTypeOf(m) == IF m % 3 = 0 THEN "lunch" ELSE "dinner"
RatingOf(m) == 8 + ((m - 1) % 3)
CatalogRow(m) == [meal_id |-> m, meal_type |-> MealTypeOf(m), rating |-> RatingOf(m)]
CatalogRows(S) == SelectSeqBy([i \in 1..NumMeals |-> CatalogRow(i)], {CatalogRow(m) : m \in S})
CatalogFiles == {None} \cup {[rows |-> CatalogRows(S)] : S \in SUBSET Meals}
\* a file that exists and on which pd.read_csv raises
Unreadable == [unreadable |-> TRUE]

\* data/meal_history.csv: one row per usage event; days_ago is now - date in
\* whole days (negative for a date in the future), date_ok is FALSE for a
\* date that pd.to_datetime(errors='coerce') turns into NaT
Event(m, ok, d) == [meal_id |-> m, date_ok |-> ok, days_ago |-> d]
EventCode(e) == <<e.meal_id, IF e.date_ok THEN 1 ELSE 0, e.days_ago>>
EventsSorted(h) == \A i \in 1..(Len(h) - 1) : ~LexLess(EventCode(h[i + 1]), EventCode(h[i]))
SeqsUpTo(S, n) == UNION {[1..k -> S] : k \in 0..n}
HistoryFiles(events, n) == {[events |-> h] : h \in {x \in SeqsUpTo(events, n) : EventsSorted(x)}}

\* models/content_similarity_matrix.pkl and models/meal_ids.pkl
AllIds == [i \in 1..NumMeals |-> i]
MaxSim == NumMeals
SimByDistance == [m |-> [i \in 1..NumMeals |-> [j \in 1..NumMeals |->
                    MaxSim - (IF i > j THEN i - j ELSE j - i)]]]
SimFlat == [m |-> [i \in 1..NumMeals |-> [j \in 1..NumMeals |-> MaxSim]]]

\* models/cf_model.pkl (predicted score per item) and models/cf_dataset.pkl
\* (the user and item mappings of the training data)
CfAscending == [pred |-> [m \in Meals |-> m]]
CfDatasetAll == [users |-> {KnownUser}, items |-> AllIds]
CfDatasetFirst == [users |-> {KnownUser}, items |-> <<1>>]
\* a model on which predict raises
CfRaises == [raises |-> TRUE]

\* models/hybrid_model.joblib: predict_proba per meal; HybridRaise stands for
\* a feature row on which predict_proba raises
HybridRaise == 0 - 1
HybridAscending == [proba |-> [m \in Meals |-> m]]
HybridPartial == [proba |-> [m \in Meals |-> IF m = 1 THEN HybridRaise ELSE 1]]
\* a classifier whose probability depends on the temporal features only
HybridContextual == [proba |-> [m \in Meals |-> 0], contextual |-> TRUE]

\* datetime.now(): hour, lowercase day name and month
Clock(hour, day_of_week, month) == [hour |-> hour, day_of_week |-> day_of_week, month |-> month]
ClockStart == Clock(9, "saturday", 6)
Clocks == {Clock(h, d, m) : h \in {9, 18}, d \in {"monday", "saturday"}, m \in {1, 6}}

\* the context dict of a request; a key that is not in the dict has the No value
NoHour == 0 - 1
NoDay == ""
NoMonth == 0
Context(hour, day_of_week, month) == [hour |-> hour, day_of_week |-> day_of_week, month |-> month]
EmptyContext == Context(NoHour, NoDay, NoMonth)

FileSet(cats, hists, contents, cfs, hybrids) ==
    {[meals |-> c, history |-> h,
      content_similarity_matrix |-> ct[1], meal_ids |-> ct[2],
      cf_model |-> cf[1], cf_dataset |-> cf[2], hybrid_model |-> hy] :
        c \in cats, h \in hists, ct \in contents, cf \in cfs, hy \in hybrids}

\* ------------------------------------------------------------------ state
VARIABLES
    files,                      \* the data/ and models/ directories
    now,                        \* what datetime.now() reads
    models_loaded,              \* engine fields (recommend.py:24-37)
    available_meals_df,
    meal_usage_counts,
    meal_usage_scores,
    content_similarity_matrix,
    meal_ids,
    cf_model,
    cf_dataset,
    hybrid_model,
    load_calls,                 \* number of executions of load_models
    pc,                         \* per request thread: position in the handler
    request,                    \* per thread: the parsed request
    all_recommendations,        \* per thread: locals of get_recommendations
    hybrid_recs,
    cf_recs,
    content_recs,
    popular_recs,
    calls,                      \* per thread: adapter invocations of the request
    response                    \* per thread: what the handler returned

engine == <<models_loaded, available_meals_df, meal_usage_counts, meal_usage_scores,
            content_similarity_matrix, meal_ids, cf_model, cf_dataset, hybrid_model>>
locals == <<all_recommendations, hybrid_recs, cf_recs, content_recs, popular_recs, calls>>
vars == <<files, now, engine, load_calls, pc, request, locals, response>>

\* ------------------------------------------------------------ load_models
\* weight of one event, scaled by WeightScale: exp(-ln(2)/half_life * age_days)
\* with age_days = (now - date).dt.days.clip(lower=0); exact when age_days is a
\* multiple of the half-life
EventWeightAbsoluteAge(e) ==
    LET age_days == IF e.days_ago < 0 THEN 0 - e.days_ago ELSE e.days_ago
    IN WeightScale \div (2 ^ (age_days \div Max(1, recency_half_life_days)))
EventWeight(e) ==
    LET age_days == Max(0, e.days_ago)
    IN WeightScale \div (2 ^ (age_days \div Max(1, recency_half_life_days)))

\* history_df['meal_id'].value_counts().to_dict(): every row of the file counts
ValueCounts(h) ==
    [m \in {h[i].meal_id : i \in 1..Len(h)} |->
        Cardinality({i \in 1..Len(h) : h[i].meal_id = m})]

\* rows with a valid date not older than the cutoff of 180 days
RecentEvents(h) ==
    SelectSeqBy(h, {e \in Range(h) : e.date_ok /\ e.days_ago <= WindowDays})

\* recent_df.groupby('meal_id')['weight'].sum().to_dict()
WeightSums(recent) ==
    [m \in {recent[i].meal_id : i \in 1..Len(recent)} |->
        SumSeq([i \in 1..Len(recent) |->
                  IF recent[i].meal_id = m THEN EventWeight(recent[i]) ELSE 0])]

LoadedUsageScores(h, old) == IF RecentEvents(h) # <<>> THEN WeightSums(RecentEvents(h)) ELSE old

\* pd.read_csv raises on the catalog (recommend.py:46): the exception reaches the
\* handler of recommend.py:121-123 before any field is assigned
load_models_fails == files.meals = Unreadable

\* the body of load_models when it returns True: every field is assigned only
\* when its file exists
load_models_succeeds ==
    /\ available_meals_df' = IF files.meals # None THEN files.meals ELSE available_meals_df
    /\ meal_usage_counts' = IF files.history # None
                            THEN ValueCounts(files.history.events) ELSE meal_usage_counts
    /\ meal_usage_scores' = IF files.history # None
                            THEN LoadedUsageScores(files.history.events, meal_usage_scores)
                            ELSE meal_usage_scores
    /\ content_similarity_matrix' = IF files.content_similarity_matrix # None
                                    THEN files.content_similarity_matrix
                                    ELSE content_similarity_matrix
    /\ meal_ids' = IF files.content_similarity_matrix # None /\ files.meal_ids # None
                   THEN files.meal_ids ELSE meal_ids
    /\ cf_model' = IF files.cf_model # None THEN files.cf_model ELSE cf_model
    /\ cf_dataset' = IF files.cf_model # None /\ files.cf_dataset # None
                     THEN files.cf_dataset ELSE cf_dataset
    /\ hybrid_model' = IF files.hybrid_model # None THEN files.hybrid_model ELSE hybrid_model
    /\ models_loaded' = TRUE

load_models ==
    /\ load_calls' = load_calls + 1
    /\ IF load_models_fails THEN UNCHANGED engine ELSE load_models_succeeds

\* ---------------------------------------------------------------- adapters
Rec(m, score, tag) == [meal_id |-> m, score |-> score, recommendation_type |-> tag]

\* available_meals_df[available_meals_df['meal_id'] == m]
MealInfo(m) == SelectSeqBy(available_meals_df.rows,
                           {r \in Range(available_meals_df.rows) : r.meal_id = m})

\* sort_values(['usage_score', 'usage_count', 'rating'], ascending=False)
PopularSortKeyCountFirst(usage_score, usage_count, rating) == <<usage_count, usage_score, rating>>
PopularSortKey(usage_score, usage_count, rating) == <<usage_score, usage_count, rating>>

usage_count(m) == DictGet(meal_usage_counts, m, 0)
CountFallbackNever == FALSE
\* the count replaces the score when no meal of the catalog has a score
CountFallback ==
    LET rows == available_meals_df.rows
    IN /\ SumSeq([i \in 1..Len(rows) |-> DictGet(meal_usage_scores, rows[i].meal_id, 0)]) = 0
       /\ SumSeq([i \in 1..Len(rows) |-> usage_count(rows[i].meal_id)]) > 0
usage_score(m) == IF CountFallback THEN usage_count(m) ELSE DictGet(meal_usage_scores, m, 0)

get_popular_recommendations(top_n, meal_type) ==
    IF available_meals_df = None THEN <<>>
    ELSE LET rows == available_meals_df.rows
             meals_df == IF meal_type # NoType
                         THEN SelectSeqBy(rows, {r \in Range(rows) : r.meal_type = meal_type})
                         ELSE rows
             sorted == StableSortDesc(meals_df,
                         [r \in Range(meals_df) |->
                            PopularSortKey(usage_score(r.meal_id), usage_count(r.meal_id), r.rating)])
             head == Take(sorted, top_n)
         IN [i \in 1..Len(head) |-> Rec(head[i].meal_id, usage_score(head[i].meal_id), "popular")]

PredictNeverRaises(m) == FALSE
\* predict_proba raises on the feature row of meal m: the meal is skipped
\* (recommend.py:298-300)
PredictRaises(m) == hybrid_model.proba[m] = HybridRaise

\* if context is None: the context is read from the clock (recommend.py:245-250)
DefaultContext(context) ==
    IF context = None THEN Context(now.hour, now.day_of_week, now.month) ELSE context

\* context.get('month', 1)
MonthDefault == 1

\* user_features (recommend.py:262-266): hour, weekend flag, month
user_features(context) ==
    <<IF context.hour = NoHour THEN 18 ELSE context.hour,
      IF (IF context.day_of_week = NoDay THEN "monday" ELSE context.day_of_week)
            \in {"saturday", "sunday"} THEN 1 ELSE 0,
      IF context.month = NoMonth THEN MonthDefault ELSE context.month>>

\* the score of HybridContextual: one value per feature row
FeatureCode(features) == (features[1] * 2 + features[2]) * 13 + features[3]

\* self.hybrid_model.predict_proba([combined_features])[0][1]
predict_proba(m, features) ==
    IF "contextual" \in DOMAIN hybrid_model THEN FeatureCode(features)
    ELSE hybrid_model.proba[m]

get_hybrid_recommendations(user_id, context, top_n, meal_type) ==
    IF hybrid_model = None THEN <<>>
    ELSE IF available_meals_df = None THEN <<>>
    ELSE LET rows == available_meals_df.rows
             features == user_features(DefaultContext(context))
             scored == SelectSeqBy(rows,
                         {r \in Range(rows) :
                            /\ ~(meal_type # NoType /\ r.meal_type # meal_type)
                            /\ ~PredictRaises(r.meal_id)})
             recommendations == [i \in 1..Len(scored) |->
                         Rec(scored[i].meal_id, predict_proba(scored[i].meal_id, features),
                             "hybrid")]
             sorted == StableSortDesc(recommendations,
                         [r \in Range(recommendations) |-> <<r.score>>])
         IN Take(sorted, top_n)

\* a candidate is skipped when the catalog knows it under another meal type
TypeMismatch(m, meal_type) ==
    /\ meal_type # NoType
    /\ available_meals_df # None
    /\ MealInfo(m) # <<>>
    /\ MealInfo(m)[1].meal_type # meal_type

RECURSIVE CollaborativeLoopWithoutBreak(_, _, _, _, _, _)
CollaborativeLoopWithoutBreak(top_items, item_ids, predictions, recommendations, top_n, meal_type) ==
    IF top_items = <<>> THEN recommendations
    ELSE CollaborativeLoopWithoutBreak(Tail(top_items), item_ids, predictions,
             Append(recommendations,
                    Rec(item_ids[Head(top_items)], predictions[Head(top_items)],
                        "collaborative_filtering")),
             top_n, meal_type)

RECURSIVE CollaborativeLoop(_, _, _, _, _, _)
\* the loop over top_items (recommend.py:200-225)
CollaborativeLoop(top_items, item_ids, predictions, recommendations, top_n, meal_type) ==
    IF top_items = <<>> \/ Len(recommendations) >= top_n THEN recommendations
    ELSE LET item_idx == Head(top_items)
             item_id == item_ids[item_idx]
         IN CollaborativeLoop(Tail(top_items), item_ids, predictions,
                IF TypeMismatch(item_id, meal_type) THEN recommendations
                ELSE Append(recommendations,
                            Rec(item_id, predictions[item_idx], "collaborative_filtering")),
                top_n, meal_type)

UserUnknownIgnored(user_id) == FALSE
\* the KeyError branch: the user is not in the mapping of the training data
UserUnknown(user_id) == cf_dataset # None /\ user_id \notin cf_dataset.users

CollaborativeAlwaysFallsBack(user_id, top_n, meal_type) ==
    get_popular_recommendations(top_n, meal_type)
get_collaborative_recommendations(user_id, top_n, meal_type) ==
    IF cf_model = None \/ cf_dataset = None THEN <<>>
    ELSE IF UserUnknown(user_id) THEN get_popular_recommendations(top_n, meal_type)
    ELSE IF cf_model = CfRaises THEN <<>>
    ELSE LET item_ids == cf_dataset.items
             predictions == [i \in 1..Len(item_ids) |-> cf_model.pred[item_ids[i]]]
             top_items == Take(Reverse(argsort(predictions)), top_n * 2)
         IN CollaborativeLoop(top_items, item_ids, predictions, <<>>, top_n, meal_type)

get_content_based_recommendations(meal_id, top_n, meal_type) ==
    IF content_similarity_matrix = None THEN <<>>
    ELSE IF meal_ids = None \/ meal_id \notin Range(meal_ids.ids) THEN <<>>
    ELSE LET ids == meal_ids.ids
             meal_idx == CHOOSE i \in 1..Len(ids) :
                            ids[i] = meal_id /\ \A j \in 1..(i - 1) : ids[j] # meal_id
         IN IF meal_idx \notin DOMAIN content_similarity_matrix.m THEN <<>>
            ELSE LET similarity_scores == content_similarity_matrix.m[meal_idx]
                     similar_indices == PySlice(Reverse(argsort(similarity_scores)), 1, top_n + 1)
                     kept == SelectSeqBy(similar_indices,
                                {idx \in Range(similar_indices) :
                                    idx <= Len(ids) /\ ~TypeMismatch(ids[idx], meal_type)})
                     recommendations == [i \in 1..Len(kept) |->
                                Rec(ids[kept[i]], similarity_scores[kept[i]], "content_based")]
                 IN Take(recommendations, top_n)

\* -------------------------------------------------------- get_recommendations
\* one adapter invocation: which adapter, the count it is asked for, and whether
\* get_recommendations, another adapter or a direct caller made it
Call(adapter, top_n, caller) == [adapter |-> adapter, top_n |-> top_n, caller |-> caller]

RECURSIVE RemoveDuplicatesFrom(_, _)
\* the loop of recommend.py:387-392: the first candidate of each meal_id is kept
RemoveDuplicatesFrom(recs, seen_meal_ids) ==
    IF recs = <<>> THEN <<>>
    ELSE IF Head(recs).meal_id \in seen_meal_ids
         THEN RemoveDuplicatesFrom(Tail(recs), seen_meal_ids)
         ELSE <<Head(recs)>> \o RemoveDuplicatesFrom(Tail(recs), seen_meal_ids \cup {Head(recs).meal_id})

KeepLastOccurrence(recs) == Reverse(RemoveDuplicatesFrom(Reverse(recs), {}))
KeepEverything(recs) == recs
unique_recommendations(recs) == RemoveDuplicatesFrom(recs, {})

\* all_recommendations.extend(recs)
ExtendInFront(all, recs) == recs \o all
Extend(all, recs) == all \o recs

InCore(t) == pc[t] \in {"check_loaded", "load_models", "hybrid", "collaborative",
                        "content", "popular", "assemble"}

\* if not self.models_loaded (recommend.py:352)
CheckLoaded(t) ==
    /\ pc[t] = "check_loaded"
    /\ pc' = [pc EXCEPT ![t] = IF models_loaded THEN "hybrid" ELSE "load_models"]
    /\ UNCHANGED <<files, now, engine, load_calls, request, locals, response>>

LoadError == [status |-> 500, error |-> "Failed to load ML models"]

\* if not self.load_models(): return {'error': ...} (recommend.py:353-354)
LoadModels(t) ==
    /\ pc[t] = "load_models"
    /\ load_models
    /\ pc' = [pc EXCEPT ![t] = IF load_models_fails THEN "done" ELSE "hybrid"]
    /\ response' = [response EXCEPT ![t] = IF load_models_fails THEN LoadError ELSE @]
    /\ UNCHANGED <<files, now, request, locals>>

\* recommend.py:360-364
TryHybrid(t) ==
    /\ pc[t] = "hybrid"
    /\ LET r == request[t]
           invoked == r.user_id # NoId /\ hybrid_model # None
           recs == IF invoked
                   THEN get_hybrid_recommendations(r.user_id, r.context, r.top_n, r.meal_type)
                   ELSE <<>>
       IN /\ hybrid_recs' = [hybrid_recs EXCEPT ![t] = recs]
          /\ all_recommendations' = [all_recommendations EXCEPT ![t] = Extend(@, recs)]
          /\ calls' = [calls EXCEPT ![t] =
                          IF invoked THEN Append(@, Call("hybrid", r.top_n, "get_recommendations")) ELSE @]
    /\ pc' = [pc EXCEPT ![t] = "collaborative"]
    /\ UNCHANGED <<files, now, engine, load_calls, request, cf_recs, content_recs, popular_recs, response>>

\* recommend.py:367-371; the adapter itself calls the popular adapter for an
\* unknown user (recommend.py:185)
TryCollaborative(t) ==
    /\ pc[t] = "collaborative"
    /\ LET r == request[t]
           all == all_recommendations[t]
           invoked == r.user_id # NoId /\ cf_model # None /\ Len(all) < r.top_n
           k == r.top_n - Len(all)
           recs == IF invoked THEN get_collaborative_recommendations(r.user_id, k, r.meal_type)
                   ELSE <<>>
           nested == IF cf_model # None /\ UserUnknown(r.user_id)
                     THEN <<Call("popular", k, "get_collaborative_recommendations")>> ELSE <<>>
       IN /\ cf_recs' = [cf_recs EXCEPT ![t] = recs]
          /\ all_recommendations' = [all_recommendations EXCEPT ![t] = Extend(@, recs)]
          /\ calls' = [calls EXCEPT ![t] =
                          IF invoked THEN Append(@, Call("collaborative_filtering", k, "get_recommendations")) \o nested
                          ELSE @]
    /\ pc' = [pc EXCEPT ![t] = "content"]
    /\ UNCHANGED <<files, now, engine, load_calls, request, hybrid_recs, content_recs, popular_recs, response>>

\* recommend.py:374-378
TryContent(t) ==
    /\ pc[t] = "content"
    /\ LET r == request[t]
           all == all_recommendations[t]
           invoked == r.meal_id # NoId /\ content_similarity_matrix # None /\ Len(all) < r.top_n
           k == r.top_n - Len(all)
           recs == IF invoked THEN get_content_based_recommendations(r.meal_id, k, r.meal_type)
                   ELSE <<>>
       IN /\ content_recs' = [content_recs EXCEPT ![t] = recs]
          /\ all_recommendations' = [all_recommendations EXCEPT ![t] = Extend(@, recs)]
          /\ calls' = [calls EXCEPT ![t] =
                          IF invoked THEN Append(@, Call("content_based", k, "get_recommendations")) ELSE @]
    /\ pc' = [pc EXCEPT ![t] = "popular"]
    /\ UNCHANGED <<files, now, engine, load_calls, request, hybrid_recs, cf_recs, popular_recs, response>>

TryPopularUntilFilled(t) ==
    /\ pc[t] = "popular"
    /\ LET r == request[t]
           all == all_recommendations[t]
           invoked == Len(all) < r.top_n
           k == r.top_n - Len(all)
           recs == IF invoked THEN get_popular_recommendations(k, r.meal_type) ELSE <<>>
       IN /\ popular_recs' = [popular_recs EXCEPT ![t] = recs]
          /\ all_recommendations' = [all_recommendations EXCEPT ![t] = Extend(@, recs)]
          /\ calls' = [calls EXCEPT ![t] =
                          IF invoked THEN Append(@, Call("popular", k, "get_recommendations")) ELSE @]
          /\ pc' = [pc EXCEPT ![t] =
                          IF Len(all) + Len(recs) < r.top_n THEN "hybrid" ELSE "assemble"]
    /\ UNCHANGED <<files, now, engine, load_calls, request, hybrid_recs, cf_recs, content_recs, response>>

TryPopularInPlace(t) ==
    /\ pc[t] = "popular"
    /\ LET r == request[t]
           all == all_recommendations[t]
           invoked == Len(all) < r.top_n
           k == r.top_n - Len(all)
           recs == IF invoked THEN get_popular_recommendations(k, r.meal_type) ELSE <<>>
       IN /\ popular_recs' = [popular_recs EXCEPT ![t] = recs]
          /\ all_recommendations' = [all_recommendations EXCEPT ![t] = Extend(@, recs)]
          /\ calls' = [calls EXCEPT ![t] =
                          IF invoked THEN Append(@, Call("popular", k, "get_recommendations")) ELSE @]
          /\ available_meals_df' =
                 IF invoked /\ available_meals_df # None /\ r.meal_type # NoType
                 THEN [rows |-> SelectSeqBy(available_meals_df.rows,
                                   {row \in Range(available_meals_df.rows) :
                                       row.meal_type = r.meal_type})]
                 ELSE available_meals_df
    /\ pc' = [pc EXCEPT ![t] = "assemble"]
    /\ UNCHANGED <<files, now, models_loaded, meal_usage_counts, meal_usage_scores,
                   content_similarity_matrix, meal_ids, cf_model, cf_dataset, hybrid_model,
                   load_calls, request, hybrid_recs, cf_recs, content_recs, response>>

\* recommend.py:381-384
TryPopular(t) ==
    /\ pc[t] = "popular"
    /\ LET r == request[t]
           all == all_recommendations[t]
           invoked == Len(all) < r.top_n
           k == r.top_n - Len(all)
           recs == IF invoked THEN get_popular_recommendations(k, r.meal_type) ELSE <<>>
       IN /\ popular_recs' = [popular_recs EXCEPT ![t] = recs]
          /\ all_recommendations' = [all_recommendations EXCEPT ![t] = Extend(@, recs)]
          /\ calls' = [calls EXCEPT ![t] =
                          IF invoked THEN Append(@, Call("popular", k, "get_recommendations")) ELSE @]
    /\ pc' = [pc EXCEPT ![t] = "assemble"]
    /\ UNCHANGED <<files, now, engine, load_calls, request, hybrid_recs, cf_recs, content_recs, response>>

AssembleTagsOfAll(t) ==
    /\ pc[t] = "assemble"
    /\ LET final_recommendations ==
               Take(unique_recommendations(all_recommendations[t]), request[t].top_n)
       IN response' = [response EXCEPT ![t] =
               [status |-> 200,
                recommendations |-> final_recommendations,
                total_count |-> Len(final_recommendations),
                models_used |-> {rec.recommendation_type : rec \in Range(all_recommendations[t])}]]
    /\ pc' = [pc EXCEPT ![t] = "done"]
    /\ UNCHANGED <<files, now, engine, load_calls, request, locals>>

\* recommend.py:386-406 and the 200 answer of the handler
Assemble(t) ==
    /\ pc[t] = "assemble"
    /\ LET final_recommendations ==
               Take(unique_recommendations(all_recommendations[t]), request[t].top_n)
       IN response' = [response EXCEPT ![t] =
               [status |-> 200,
                recommendations |-> final_recommendations,
                total_count |-> Len(final_recommendations),
                models_used |-> {rec.recommendation_type : rec \in Range(final_recommendations)}]]
    /\ pc' = [pc EXCEPT ![t] = "done"]
    /\ UNCHANGED <<files, now, engine, load_calls, request, locals>>

\* ------------------------------------------------------------ api_server.py
NoLocals(t) ==
    /\ all_recommendations' = [all_recommendations EXCEPT ![t] = <<>>]
    /\ hybrid_recs' = [hybrid_recs EXCEPT ![t] = <<>>]
    /\ cf_recs' = [cf_recs EXCEPT ![t] = <<>>]
    /\ content_recs' = [content_recs EXCEPT ![t] = <<>>]
    /\ popular_recs' = [popular_recs EXCEPT ![t] = <<>>]
    /\ calls' = [calls EXCEPT ![t] = <<>>]

Parsed(raw, top_n) ==
    [user_id |-> raw.user_id, meal_id |-> raw.meal_id,
     meal_type |-> raw.meal_type, context |-> None, top_n |-> top_n]

BadRequest == [status |-> 400]
NoRequest == Parsed([user_id |-> NoId, meal_id |-> NoId, meal_type |-> NoType], 0)

\* the checks of api_server.py:57-61
ValidTopN(top_n) == ~(top_n < MinTopN \/ top_n > LimitTopN)
ValidMealType(meal_type) == ~(meal_type # NoType /\ meal_type \notin ValidMealTypes)

\* bound of the model: no new request once load_models has run MaxLoads times
MaxLoads == NumThreads + 1

\* the context the client sent; a request without context parameters has none
SentContext(raw) == IF "context" \in DOMAIN raw THEN raw.context ELSE EmptyContext

\* GET /recommendations (api_server.py:37-86); context if context else None
ApiGet(t, raw) ==
    /\ pc[t] = "idle"
    /\ load_calls < MaxLoads
    /\ LET top_n == IF raw.has_top_n THEN raw.top_n ELSE DefaultTopN
           context == IF SentContext(raw) = EmptyContext THEN None ELSE SentContext(raw)
           req == [Parsed(raw, top_n) EXCEPT !.context = context]
       IN /\ request' = [request EXCEPT ![t] = req]
          /\ IF ~ValidTopN(top_n) \/ ~ValidMealType(raw.meal_type)
             THEN /\ pc' = [pc EXCEPT ![t] = "done"]
                  /\ response' = [response EXCEPT ![t] = BadRequest]
             ELSE /\ pc' = [pc EXCEPT ![t] = "check_loaded"]
                  /\ response' = [response EXCEPT ![t] = None]
    /\ NoLocals(t)
    /\ UNCHANGED <<files, now, engine, load_calls>>

\* POST /recommendations (api_server.py:88-124): no check of the parameters
ApiPost(t, raw) ==
    /\ pc[t] = "idle"
    /\ load_calls < MaxLoads
    /\ LET top_n == IF raw.has_top_n THEN raw.top_n ELSE DefaultTopN
       IN request' = [request EXCEPT ![t] =
                         [Parsed(raw, top_n) EXCEPT !.context = SentContext(raw)]]
    /\ pc' = [pc EXCEPT ![t] = "check_loaded"]
    /\ response' = [response EXCEPT ![t] = None]
    /\ NoLocals(t)
    /\ UNCHANGED <<files, now, engine, load_calls>>

\* the handler has answered; the server thread is free for the next request
Return(t) ==
    /\ pc[t] = "done"
    /\ pc' = [pc EXCEPT ![t] = "idle"]
    /\ request' = [request EXCEPT ![t] = NoRequest]
    /\ response' = [response EXCEPT ![t] = None]
    /\ NoLocals(t)
    /\ UNCHANGED <<files, now, engine, load_calls>>

\* ------------------------------------------- the engine called directly
\* the training pipeline or an operator replaces the artifacts on disk
\* (api_server.py:163-211 runs preprocess.py:281-296 and the trainer)
ChangeFiles(F) ==
    /\ \A t \in Threads : pc[t] = "idle"
    /\ files' \in F \ {files}
    /\ UNCHANGED <<now, engine, load_calls, pc, request, locals, response>>

\* recommendation_engine.load_models() called by the owner of the engine
\* (recommend.py:424), between two calls of its script
LoadDirect ==
    /\ \A t \in Threads : pc[t] = "idle"
    /\ load_calls < MaxLoads
    /\ load_models
    /\ UNCHANGED <<files, now, pc, request, locals, response>>

DirectArgs(user_id, meal_id, meal_type, top_n) ==
    [user_id |-> user_id, meal_id |-> meal_id, meal_type |-> meal_type,
     context |-> None, top_n |-> top_n]

\* one adapter method called on the engine, outside get_recommendations
DirectStart(t, args) ==
    /\ pc[t] = "idle"
    /\ pc' = [pc EXCEPT ![t] = "done"]
    /\ request' = [request EXCEPT ![t] = args]
    /\ all_recommendations' = [all_recommendations EXCEPT ![t] = <<>>]
    /\ UNCHANGED <<files, now, engine, load_calls, response>>

DirectHybrid(t, user_id, top_n, meal_type) ==
    /\ DirectStart(t, DirectArgs(user_id, NoId, meal_type, top_n))
    /\ hybrid_recs' = [hybrid_recs EXCEPT ![t] =
                          get_hybrid_recommendations(user_id, None, top_n, meal_type)]
    /\ calls' = [calls EXCEPT ![t] = <<Call("hybrid", top_n, "direct")>>]
    /\ UNCHANGED <<cf_recs, content_recs, popular_recs>>

DirectCollaborative(t, user_id, top_n, meal_type) ==
    /\ DirectStart(t, DirectArgs(user_id, NoId, meal_type, top_n))
    /\ cf_recs' = [cf_recs EXCEPT ![t] =
                      get_collaborative_recommendations(user_id, top_n, meal_type)]
    /\ calls' = [calls EXCEPT ![t] =
                    <<Call("collaborative_filtering", top_n, "direct")>> \o
                    (IF cf_model # None /\ UserUnknown(user_id)
                     THEN <<Call("popular", top_n, "get_collaborative_recommendations")>>
                     ELSE <<>>)]
    /\ UNCHANGED <<hybrid_recs, content_recs, popular_recs>>

DirectContent(t, meal_id, top_n, meal_type) ==
    /\ DirectStart(t, DirectArgs(NoId, meal_id, meal_type, top_n))
    /\ content_recs' = [content_recs EXCEPT ![t] =
                           get_content_based_recommendations(meal_id, top_n, meal_type)]
    /\ calls' = [calls EXCEPT ![t] = <<Call("content_based", top_n, "direct")>>]
    /\ UNCHANGED <<hybrid_recs, cf_recs, popular_recs>>

DirectPopular(t, top_n, meal_type) ==
    /\ DirectStart(t, DirectArgs(NoId, NoId, meal_type, top_n))
    /\ popular_recs' = [popular_recs EXCEPT ![t] = get_popular_recommendations(top_n, meal_type)]
    /\ calls' = [calls EXCEPT ![t] = <<Call("popular", top_n, "direct")>>]
    /\ UNCHANGED <<hybrid_recs, cf_recs, content_recs>>

\* ---------------------------------------------------------- specifications
RawRequests(users, meals, types, top_ns, flags) ==
    [user_id : users, meal_id : meals, meal_type : types, top_n : top_ns, has_top_n : flags]

InitAt(F, C) ==
    /\ files \in F
    /\ now \in C
    /\ models_loaded = FALSE
    /\ available_meals_df = None
    /\ meal_usage_counts = EmptyDict
    /\ meal_usage_scores = EmptyDict
    /\ content_similarity_matrix = None
    /\ meal_ids = None
    /\ cf_model = None
    /\ cf_dataset = None
    /\ hybrid_model = None
    /\ load_calls = 0
    /\ pc = [t \in Threads |-> "idle"]
    /\ request = [t \in Threads |-> NoRequest]
    /\ all_recommendations = [t \in Threads |-> <<>>]
    /\ hybrid_recs = [t \in Threads |-> <<>>]
    /\ cf_recs = [t \in Threads |-> <<>>]
    /\ content_recs = [t \in Threads |-> <<>>]
    /\ popular_recs = [t \in Threads |-> <<>>]
    /\ calls = [t \in Threads |-> <<>>]
    /\ response = [t \in Threads |-> None]

InitWith(F) == InitAt(F, {ClockStart})

Core(t) ==
    \/ CheckLoaded(t)
    \/ LoadModels(t)
    \/ TryHybrid(t)
    \/ TryCollaborative(t)
    \/ TryContent(t)
    \/ TryPopular(t)
    \/ Assemble(t)

\* one request at a time, well-formed requests, every combination of artifacts
HistoriesMain == {[events |-> <<Event(2, TRUE, 0)>>]}
ContentsMain == {<<None, None>>, <<SimByDistance, [ids |-> AllIds]>>, <<SimFlat, [ids |-> AllIds]>>}
CfsMain == {<<None, None>>, <<CfAscending, None>>, <<CfAscending, CfDatasetAll>>,
            <<CfAscending, CfDatasetFirst>>}
HybridsMain == {None, HybridAscending, HybridPartial}
FilesMain == FileSet(CatalogFiles, HistoriesMain, ContentsMain, CfsMain, HybridsMain)
RequestsMain == RawRequests({NoId, KnownUser, UnknownUser}, {NoId, 1, NumMeals},
                            {NoType, "dinner"}, 1..MaxTopN, {TRUE})

Init == InitWith(FilesMain)
Next ==
    \/ \E raw \in RequestsMain : ApiGet(1, raw)
    \/ \E raw \in RequestsMain : ApiPost(1, raw)
    \/ Core(1)
    \/ Return(1)
Spec == Init /\ [][Next]_vars

\* threaded server: several first requests at once on a fresh engine
FilesConc == FileSet({[rows |-> CatalogRows(Meals)]}, HistoriesMain,
                     {<<None, None>>}, {<<None, None>>}, {None})
RequestsConc == RawRequests({NoId}, {NoId}, {NoType, "dinner"}, {1}, {TRUE})
InitConc == InitWith(FilesConc)
NextConc ==
    \E t \in Threads :
        \/ \E raw \in RequestsConc : ApiGet(t, raw)
        \/ \E raw \in RequestsConc : ApiPost(t, raw)
        \/ Core(t)
        \/ Return(t)
SpecConc == InitConc /\ [][NextConc]_vars

\* the transport boundary: raw parameters, valid or not
FilesApi == FileSet({[rows |-> CatalogRows(Meals)]}, HistoriesMain,
                    {<<None, None>>}, {<<None, None>>}, {None, HybridAscending})
RequestsApi == RawRequests({NoId, KnownUser}, {NoId},
                           {NoType, "dinner", "brunch"},
                           {MinTopN - 1, MinTopN, MaxTopN, LimitTopN, LimitTopN + 1},
                           BOOLEAN)
InitApi == InitWith(FilesApi)
NextApi ==
    \/ \E raw \in RequestsApi : ApiGet(1, raw)
    \/ \E raw \in RequestsApi : ApiPost(1, raw)
    \/ Core(1)
    \/ Return(1)
SpecApi == InitApi /\ [][NextApi]_vars

\* popularity only: no model artifact, every usage history up to MaxEvents events
EventsPopular == {Event(m, TRUE, d) : m \in Meals, d \in {0, WindowDays + 1}}
FilesPopular == FileSet(CatalogFiles, {None} \cup HistoryFiles(EventsPopular, MaxEvents),
                        {<<None, None>>}, {<<None, None>>}, {None})
RequestsPopular == RawRequests({NoId}, {NoId}, {NoType, "dinner"}, 1..MaxTopN, {TRUE})
InitPopular == InitWith(FilesPopular)
NextPopular ==
    \/ \E raw \in RequestsPopular : ApiGet(1, raw)
    \/ \E raw \in RequestsPopular : ApiPost(1, raw)
    \/ Core(1)
    \/ Return(1)
SpecPopular == InitPopular /\ [][NextPopular]_vars

\* temporal context: every clock reading, every subset of the context keys
ContextsSent == {Context(h, d, m) : h \in {NoHour, 12}, d \in {NoDay, "sunday"}, m \in {NoMonth, 7}}
FilesContext == FileSet({[rows |-> CatalogRows(Meals)]}, HistoriesMain,
                        {<<None, None>>}, {<<None, None>>}, {HybridContextual})
RequestsContext ==
    [user_id : {NoId, KnownUser}, meal_id : {NoId}, meal_type : {NoType, "dinner"},
     top_n : {MinTopN, MaxTopN}, has_top_n : {TRUE}, context : ContextsSent]
InitContext == InitAt(FilesContext, Clocks)
NextContext ==
    \/ \E raw \in RequestsContext : ApiGet(1, raw)
    \/ \E raw \in RequestsContext : ApiPost(1, raw)
    \/ Core(1)
    \/ Return(1)
SpecContext == InitContext /\ [][NextContext]_vars

\* usage histories with old events and with dates that cannot be parsed
EventsHistory == {Event(m, TRUE, d) : m \in {1, NumMeals}, d \in {0, WindowDays + 1}}
                     \cup {Event(m, FALSE, 0) : m \in {1, NumMeals}}
FilesHistory == FileSet({[rows |-> CatalogRows(Meals)]}, HistoryFiles(EventsHistory, MaxEvents),
                        {<<None, None>>}, {<<None, None>>}, {None})
InitHistory == InitWith(FilesHistory)
NextHistory ==
    \/ \E raw \in RequestsPopular : ApiGet(1, raw)
    \/ \E raw \in RequestsPopular : ApiPost(1, raw)
    \/ Core(1)
    \/ Return(1)
SpecHistory == InitHistory /\ [][NextHistory]_vars

\* the artifacts change between two loads of the same engine
HistoriesReload == {None, [events |-> <<Event(1, TRUE, 0)>>],
                    [events |-> <<Event(NumMeals, TRUE, WindowDays + 1)>>]}
FilesReload == FileSet({None, [rows |-> CatalogRows(Meals)]}, HistoriesReload,
                       {<<None, None>>, <<SimByDistance, [ids |-> AllIds]>>},
                       {<<None, None>>, <<CfAscending, CfDatasetAll>>},
                       {None, HybridAscending})
InitReload == InitWith(FilesReload)
NextReload ==
    \/ ChangeFiles(FilesReload)
    \/ LoadDirect
    \/ \E k \in {MinTopN, MaxTopN} : DirectPopular(1, k, NoType)
    \/ Return(1)
SpecReload == InitReload /\ [][NextReload]_vars

\* degraded installations: catalog missing, unreadable, empty or partial; model
\* artifacts missing one by one; a reference meal no artifact knows
UnknownMeal == NumMeals + 1
CatalogsDegraded == {None, Unreadable, [rows |-> CatalogRows({})],
                     [rows |-> CatalogRows(Meals \ {1})], [rows |-> CatalogRows(Meals)]}
ContentsDegraded == {<<None, None>>, <<SimByDistance, None>>, <<SimByDistance, [ids |-> AllIds]>>}
CfsDegraded == {<<None, None>>, <<CfAscending, None>>, <<CfAscending, CfDatasetAll>>,
                <<CfRaises, CfDatasetAll>>}
HybridsDegraded == {None, HybridPartial}
FilesDegraded == FileSet(CatalogsDegraded, {None} \cup HistoriesMain, ContentsDegraded,
                         CfsDegraded, HybridsDegraded)
RequestsDegraded == RawRequests({NoId, KnownUser, UnknownUser}, {NoId, 1, UnknownMeal},
                                {NoType, "dinner"}, {MinTopN, MaxTopN}, {TRUE})
InitDegraded == InitWith(FilesDegraded)
NextDegraded ==
    \/ \E raw \in RequestsDegraded : ApiGet(1, raw)
    \/ \E raw \in RequestsDegraded : ApiPost(1, raw)
    \/ Core(1)
    \/ Return(1)
SpecDegraded == InitDegraded /\ [][NextDegraded]_vars

\* the adapters called one by one, before and after load_models
CatalogsAdapters == {None, [rows |-> CatalogRows({})], [rows |-> CatalogRows(Meals \ {1})],
                     [rows |-> CatalogRows(Meals)]}
ContentsAdapters == ContentsDegraded \cup {<<SimFlat, [ids |-> AllIds]>>}
CfsAdapters == CfsDegraded \cup {<<CfAscending, CfDatasetFirst>>}
FilesAdapters == FileSet(CatalogsAdapters, HistoriesMain, ContentsAdapters, CfsAdapters,
                         HybridsMain)
UsersAdapters == {KnownUser, UnknownUser}
MealsAdapters == {1, NumMeals, UnknownMeal}
TypesAdapters == {NoType, "dinner", "lunch"}
InitAdapters == InitWith(FilesAdapters)
NextAdapters ==
    \/ LoadDirect
    \/ \E u \in UsersAdapters, k \in 1..MaxTopN, ty \in TypesAdapters : DirectHybrid(1, u, k, ty)
    \/ \E u \in UsersAdapters, k \in 1..MaxTopN, ty \in TypesAdapters :
           DirectCollaborative(1, u, k, ty)
    \/ \E m \in MealsAdapters, k \in 1..MaxTopN, ty \in TypesAdapters : DirectContent(1, m, k, ty)
    \/ \E k \in 1..MaxTopN, ty \in TypesAdapters : DirectPopular(1, k, ty)
    \/ Return(1)
SpecAdapters == InitAdapters /\ [][NextAdapters]_vars

\* usage histories with events of age 0, one and two half-lives, and events
\* dated one half-life in the future
AgesDecay == {0 - recency_half_life_days, 0, recency_half_life_days, 2 * recency_half_life_days}
EventsDecay == {Event(m, TRUE, d) : m \in {1, NumMeals}, d \in AgesDecay}
FilesDecay == FileSet({[rows |-> CatalogRows(Meals)]}, HistoryFiles(EventsDecay, MaxEvents),
                      {<<None, None>>}, {<<None, None>>}, {None})
InitDecay == InitWith(FilesDecay)
NextDecay ==
    \/ \E raw \in RequestsPopular : ApiGet(1, raw)
    \/ \E raw \in RequestsPopular : ApiPost(1, raw)
    \/ Core(1)
    \/ Return(1)
SpecDecay == InitDecay /\ [][NextDecay]_vars

\* ------------------------------------------------------------------ claims
Answered(t) == pc[t] = "done" /\ response[t] # None /\ response[t].status = 200
Final(t) == response[t].recommendations
InOrder(t) == hybrid_recs[t] \o cf_recs[t] \o content_recs[t] \o popular_recs[t]
Ids(recs) == {recs[i].meal_id : i \in 1..Len(recs)}
Eligible(meal_type) ==
    IF available_meals_df = None THEN {}
    ELSE {r \in Range(available_meals_df.rows) : meal_type = NoType \/ r.meal_type = meal_type}
TagRank(tag) == CHOOSE i \in 1..Len(StrategyTags) : StrategyTags[i] = tag
CfFallback(t) == request[t].user_id # NoId /\ cf_model # None /\ cf_dataset # None
                 /\ request[t].user_id \notin cf_dataset.users

\* C1: the meal_id values of the recommendations of every answer are pairwise
\* distinct
C1_Uniqueness ==
    \A t \in Threads : Answered(t) =>
        \A i, j \in 1..Len(Final(t)) : i # j => Final(t)[i].meal_id # Final(t)[j].meal_id
\* two strategies produced the same meal, and the answer has several items
C1_Witness ==
    \E t \in Threads :
        /\ Answered(t)
        /\ Len(Final(t)) >= 2
        /\ Cardinality(Ids(all_recommendations[t])) < Len(all_recommendations[t])

\* C2: for top_n in 1..20 the answer never has more than top_n recommendations
C2_BoundByTopN ==
    \A t \in Threads : (Answered(t) /\ request[t].top_n \in MinTopN..LimitTopN) =>
        /\ Len(Final(t)) <= request[t].top_n
        /\ response[t].total_count = Len(Final(t))
\* the answer is full although more meals were eligible
C2_Witness ==
    \E t \in Threads :
        /\ Answered(t)
        /\ Len(Final(t)) = request[t].top_n
        /\ Cardinality(Eligible(request[t].meal_type)) > request[t].top_n

\* C3: when the catalog has at least top_n meals eligible under the meal_type
\* filter, the answer has exactly top_n recommendations
C3_FillToTopN ==
    \A t \in Threads :
        (/\ Answered(t)
         /\ request[t].top_n \in MinTopN..LimitTopN
         /\ Cardinality(Eligible(request[t].meal_type)) >= request[t].top_n)
        => Len(Final(t)) = request[t].top_n

C5_TagOrder ==
    \A t \in Threads : Answered(t) =>
        \A i, j \in 1..Len(Final(t)) : i < j =>
            TagRank(Final(t)[i].recommendation_type) <= TagRank(Final(t)[j].recommendation_type)
\* C5 amended: the tags are in priority order, except that the candidates the
\* collaborative adapter returns from its popularity fallback for an unknown
\* user are tagged popular and precede the content_based candidates
C5_InvocationOrder ==
    \A t \in Threads : Answered(t) =>
        \A i, j \in 1..Len(Final(t)) : i < j =>
            \/ TagRank(Final(t)[i].recommendation_type) <= TagRank(Final(t)[j].recommendation_type)
            \/ /\ CfFallback(t)
               /\ Final(t)[i] \in Range(cf_recs[t])
               /\ Final(t)[i].recommendation_type = "popular"
               /\ Final(t)[j].recommendation_type = "content_based"
\* an answer with a popular candidate of the fallback before a content_based one
C5_Witness ==
    \E t \in Threads :
        /\ Answered(t)
        /\ CfFallback(t)
        /\ \E i, j \in 1..Len(Final(t)) :
              /\ i < j
              /\ Final(t)[i].recommendation_type = "popular"
              /\ Final(t)[j].recommendation_type = "content_based"

\* C6 as stated: an unknown user gets the popularity-only list
C6_UnknownUserIsPopular ==
    \A t \in Threads : (Answered(t) /\ CfFallback(t)) =>
        Final(t) = get_popular_recommendations(request[t].top_n, request[t].meal_type)
\* C6 amended: an unknown user gets the popularity-only list when the hybrid
\* model is not loaded and the content-based strategy is not eligible (no
\* reference meal_id, or no similarity matrix)
C6_UnknownUserIsPopularWithoutOtherModels ==
    \A t \in Threads :
        (/\ Answered(t)
         /\ CfFallback(t)
         /\ hybrid_model = None
         /\ (request[t].meal_id = NoId \/ content_similarity_matrix = None))
        => Final(t) = get_popular_recommendations(request[t].top_n, request[t].meal_type)
\* such a request answered with a non-empty list
C6_Witness ==
    \E t \in Threads :
        /\ Answered(t)
        /\ CfFallback(t)
        /\ hybrid_model = None
        /\ (request[t].meal_id = NoId \/ content_similarity_matrix = None)
        /\ Len(Final(t)) >= 2

MaxStrategies == Len(StrategyTags)
\* C7 as stated: at most 4 adapter invocations per request, nested ones counted
C7_AtMostFourCalls == \A t \in Threads : Len(calls[t]) <= MaxStrategies
PcOrder == <<"idle", "check_loaded", "load_models", "hybrid", "collaborative",
             "content", "popular", "assemble", "done">>
PcRank(p) == CHOOSE i \in 1..Len(PcOrder) : PcOrder[i] = p
\* C7 amended: get_recommendations makes at most 4 adapter invocations itself,
\* the collaborative adapter at most one more (the popular adapter, for an
\* unknown user), so at most 5 in all; every step of a request inside
\* get_recommendations moves it forward in the fixed order of the stages, and
\* at the end it has an answer
C7_Termination ==
    /\ [](\A t \in Threads :
            /\ Len(calls[t]) <= MaxStrategies + 1
            /\ Len(calls[t]) = MaxStrategies + 1 => CfFallback(t)
            /\ Len(SelectSeqBy(calls[t], {c \in Range(calls[t]) : c.adapter = "popular"})) <= 2
            /\ pc[t] = "done" => response[t] # None)
    /\ [][\A t \in Threads :
            (InCore(t) /\ <<pc[t], calls[t], all_recommendations[t]>>' #
                          <<pc[t], calls[t], all_recommendations[t]>>)
            => PcRank(pc[t]') > PcRank(pc[t])]_vars
\* a request answered after five adapter invocations
C7_Witness == \E t \in Threads : Answered(t) /\ Len(calls[t]) = MaxStrategies + 1

\* C8: the output of the popular adapter is the top_n eligible meals by the
\* descending lexicographic key (recency_score, raw_count, rating), a meal
\* absent from the usage maps counting as (0, 0)
PopularKey(m) == <<DictGet(meal_usage_scores, m, 0), DictGet(meal_usage_counts, m, 0), RatingOf(m)>>
PopularOnly(t) == pc[t] \in {"assemble", "done"} /\ calls[t] = <<Call("popular", request[t].top_n, "get_recommendations")>>
C8_PopularityOrdering ==
    \A t \in Threads : PopularOnly(t) =>
        LET out == popular_recs[t]
            eligible == {r.meal_id : r \in Eligible(request[t].meal_type)}
        IN /\ Len(out) = Min(request[t].top_n, Cardinality(eligible))
           /\ Ids(out) \subseteq eligible
           /\ Cardinality(Ids(out)) = Len(out)
           /\ \A i, j \in 1..Len(out) : i < j =>
                  ~LexLess(PopularKey(out[i].meal_id), PopularKey(out[j].meal_id))
           /\ \A i \in 1..Len(out) : \A m \in eligible \ Ids(out) :
                  ~LexLess(PopularKey(out[i].meal_id), PopularKey(m))
\* a meal with the higher recency score ranks first although the other has the
\* higher raw count and the higher rating
C8_Witness ==
    \E t \in Threads :
        /\ PopularOnly(t)
        /\ \E i, j \in 1..Len(popular_recs[t]) :
              LET a == PopularKey(popular_recs[t][i].meal_id)
                  b == PopularKey(popular_recs[t][j].meal_id)
              IN i < j /\ a[1] > b[1] /\ a[2] < b[2] /\ a[3] < b[3]

\* C9: a request with top_n outside 1..20 or with an unknown meal_type never
\* reaches get_meal_recommendations
C9_BoundaryValidation ==
    \A t \in Threads : InCore(t) =>
        ValidTopN(request[t].top_n) /\ ValidMealType(request[t].meal_type)

\* C10: load_models is executed at most once, however the first requests
\* interleave
C10_LoadOnce == load_calls <= 1

\* C11: when the catalog file is missing or unreadable, get_recommendations
\* answers with an error result and never with a recommendation list
CatalogNotLoadable == files.meals = None \/ files.meals = Unreadable
C11_ConfigurationFailure ==
    \A t \in Threads :
        (pc[t] = "done" /\ response[t] # None /\ CatalogNotLoadable) => response[t] = LoadError

\* C12: once the catalog is loaded every request is answered with a
\* recommendation result, never an error; a strategy whose model artifact is
\* missing, or whose reference meal is unknown, contributes zero candidates and
\* the strategies after it are still consulted
HybridUnavailable == hybrid_model = None
CollaborativeUnavailable == cf_model = None \/ cf_dataset = None
ContentUnavailable(t) ==
    \/ content_similarity_matrix = None
    \/ meal_ids = None
    \/ request[t].meal_id \notin Range(meal_ids.ids)
DirectCall(t, adapter) ==
    /\ pc[t] = "done"
    /\ calls[t] # <<>>
    /\ calls[t][1] = Call(adapter, request[t].top_n, "direct")
ContentFails(t) == ContentUnavailable(t)
CollaborativeFails(t) ==
    \/ CollaborativeUnavailable
    \/ cf_model = CfRaises /\ request[t].user_id \in cf_dataset.users
HybridFails == hybrid_model = None \/ available_meals_df = None
HybridScoringRaises(t) ==
    /\ ~HybridFails
    /\ \E r \in Eligible(request[t].meal_type) : PredictRaises(r.meal_id)
PopularFails == available_meals_df = None
AdaptersEmptyOnFailure(t) ==
    /\ (DirectCall(t, "content_based") /\ ContentFails(t)) => content_recs[t] = <<>>
    /\ (DirectCall(t, "collaborative_filtering") /\ CollaborativeFails(t)) => cf_recs[t] = <<>>
    /\ (DirectCall(t, "hybrid") /\ HybridFails) => hybrid_recs[t] = <<>>
    /\ (DirectCall(t, "popular") /\ PopularFails) => popular_recs[t] = <<>>
HasType(recs, meal_type) == \A i \in 1..Len(recs) : MealTypeOf(recs[i].meal_id) = meal_type
C14_MealTypeFilter ==
    \A t \in Threads :
        (Answered(t) /\ available_meals_df # None /\ request[t].meal_type # NoType) =>
            /\ HasType(hybrid_recs[t], request[t].meal_type)
            /\ HasType(cf_recs[t], request[t].meal_type)
            /\ HasType(content_recs[t], request[t].meal_type)
            /\ HasType(popular_recs[t], request[t].meal_type)
            /\ HasType(Final(t), request[t].meal_type)

\* C15: the answer never has more recommendations than the catalog has entries
\* eligible under the meal_type filter of the request (stated for a loaded
\* catalog)
C15_BoundByCatalog ==
    \A t \in Threads :
        (Answered(t) /\ available_meals_df # None) =>
            Len(Final(t)) <= Cardinality(Eligible(request[t].meal_type))

\* C16: an adapter called with a count k >= 1 returns at most k candidates, the
\* collaborative adapter's popularity fallback for an unknown user included
C16_AdapterCountBound ==
    \A t \in Threads :
        /\ DirectCall(t, "hybrid") => Len(hybrid_recs[t]) <= request[t].top_n
        /\ DirectCall(t, "collaborative_filtering") => Len(cf_recs[t]) <= request[t].top_n
        /\ DirectCall(t, "content_based") => Len(content_recs[t]) <= request[t].top_n
        /\ DirectCall(t, "popular") => Len(popular_recs[t]) <= request[t].top_n
\* the collaborative adapter fell back to popularity for an unknown user and
\* returned exactly k candidates of a catalog that has more
C16_Witness ==
    \E t \in Threads :
        /\ DirectCall(t, "collaborative_filtering")
        /\ Len(calls[t]) = 2
        /\ request[t].top_n >= 1
        /\ Len(cf_recs[t]) = request[t].top_n
        /\ Cardinality(Eligible(request[t].meal_type)) > request[t].top_n

\* C17: once load_models has completed, no step of get_recommendations or of
\* an adapter changes the catalog, the usage maps, the model containers or
\* models_loaded
C17_ReadOnlyAfterLoad == [][models_loaded => engine' = engine]_vars
\* a request that went through several adapters has been answered on a loaded
\* engine
C17_Witness ==
    \E t \in Threads :
        /\ models_loaded
        /\ Answered(t)
        /\ Len(calls[t]) >= 2
        /\ request[t].meal_type # NoType
        /\ popular_recs[t] # <<>>

\* C18: an event of age 0 weighs 1 (WeightScale in the scaled arithmetic), an
\* event 30 days old half of it, an event 60 days old a quarter, an event dated
\* in the future as much as an event of age 0; the score of a meal is the sum
\* of the weights of its events
EventsOfAge(m, ages) ==
    Cardinality({i \in 1..Len(files.history.events) :
                    /\ files.history.events[i].meal_id = m
                    /\ files.history.events[i].days_ago \in ages})
C18_RecencyDecay ==
    (models_loaded /\ files.history # None /\ files.history.events # <<>>) =>
        \A m \in Meals :
            4 * DictGet(meal_usage_scores, m, 0) =
                WeightScale * (4 * EventsOfAge(m, {0 - 30, 0}) + 2 * EventsOfAge(m, {30})
                               + EventsOfAge(m, {60}))
\* one meal has an event in the future, one of age 30 and one of age 60: its
\* score is 1 + 1/2 + 1/4
C18_Witness ==
    /\ models_loaded
    /\ files.history # None
    /\ \E m \in Meals :
          /\ EventsOfAge(m, {0 - 30}) = 1
          /\ EventsOfAge(m, {30}) = 1
          /\ EventsOfAge(m, {60}) = 1
          /\ 4 * DictGet(meal_usage_scores, m, 0) = 7 * WeightScale

\* C19: a strategy after the first is invoked by get_recommendations if and only
\* if its inputs are present and the number of unique meal_ids collected so far
\* is below top_n (stated for a loaded catalog)
InvokedCall(t, adapter) ==
    {i \in 1..Len(calls[t]) :
        calls[t][i].adapter = adapter /\ calls[t][i].caller = "get_recommendations"}
Invoked(t, adapter) == InvokedCall(t, adapter) # {}
UniqueBefore(t, adapter) ==
    CASE adapter = "hybrid" -> 0
      [] adapter = "collaborative_filtering" -> Cardinality(Ids(hybrid_recs[t]))
      [] adapter = "content_based" -> Cardinality(Ids(hybrid_recs[t] \o cf_recs[t]))
      [] adapter = "popular" ->
            Cardinality(Ids(hybrid_recs[t] \o cf_recs[t] \o content_recs[t]))
C19_InvocationGuard ==
    \A t \in Threads :
        (Answered(t) /\ available_meals_df # None) =>
            /\ Invoked(t, "collaborative_filtering") <=>
                   /\ request[t].user_id # NoId /\ cf_model # None
                   /\ UniqueBefore(t, "collaborative_filtering") < request[t].top_n
            /\ Invoked(t, "content_based") <=>
                   /\ request[t].meal_id # NoId /\ content_similarity_matrix # None
                   /\ UniqueBefore(t, "content_based") < request[t].top_n
            /\ Invoked(t, "popular") <=> UniqueBefore(t, "popular") < request[t].top_n

\* C20: every strategy get_recommendations attempts is asked for top_n minus
\* the number of unique meal_ids collected from the strategies before it
C20_DeficitRequest ==
    \A t \in Threads :
        Answered(t) =>
            \A i \in 1..Len(calls[t]) :
                calls[t][i].caller = "get_recommendations" =>
                    calls[t][i].top_n = request[t].top_n - UniqueBefore(t, calls[t][i].adapter)

\* C21: the output of get_content_based_recommendations for reference meal m
\* never contains m
C21_SelfExclusion ==
    \A t \in Threads :
        DirectCall(t, "content_based") => request[t].meal_id \notin Ids(content_recs[t])

\* C22: the candidates of get_content_based_recommendations are in descending
\* order of similarity, and candidates of equal similarity are in the order of
\* their positions in the index (stated for the candidates other than the
\* reference meal)
IndexOf(m) == CHOOSE i \in 1..Len(meal_ids.ids) : meal_ids.ids[i] = m
C22_ContentRanking ==
    \A t \in Threads :
        DirectCall(t, "content_based") =>
            \A i, j \in 1..Len(content_recs[t]) :
                (/\ i < j
                 /\ content_recs[t][i].meal_id # request[t].meal_id
                 /\ content_recs[t][j].meal_id # request[t].meal_id) =>
                    \/ content_recs[t][i].score > content_recs[t][j].score
                    \/ /\ content_recs[t][i].score = content_recs[t][j].score
                       /\ IndexOf(content_recs[t][i].meal_id) < IndexOf(content_recs[t][j].meal_id)

\* C23: under a meal_type filter an adapter that knows at least k matching
\* candidates returns exactly k candidates (the reference meal does not count
\* for content-based)
MatchingCatalog(meal_type) == {r.meal_id : r \in Eligible(meal_type)}
KnownMatching(t, adapter) ==
    CASE adapter = "content_based" ->
            IF ContentUnavailable(t) THEN {}
            ELSE (Range(meal_ids.ids) \ {request[t].meal_id})
                     \cap MatchingCatalog(request[t].meal_type)
      [] adapter = "collaborative_filtering" ->
            IF CollaborativeFails(t) \/ UserUnknown(request[t].user_id) THEN {}
            ELSE Range(cf_dataset.items) \cap MatchingCatalog(request[t].meal_type)
      [] adapter = "hybrid" ->
            IF HybridFails THEN {}
            ELSE {m \in MatchingCatalog(request[t].meal_type) : ~PredictRaises(m)}
      [] adapter = "popular" -> MatchingCatalog(request[t].meal_type)
DirectOutput(t, adapter) ==
    CASE adapter = "content_based" -> content_recs[t]
      [] adapter = "collaborative_filtering" -> cf_recs[t]
      [] adapter = "hybrid" -> hybrid_recs[t]
      [] adapter = "popular" -> popular_recs[t]
C23_FilterBeforeRanking ==
    \A t \in Threads :
        \A adapter \in Range(StrategyTags) :
            (/\ DirectCall(t, adapter)
             /\ request[t].meal_type # NoType
             /\ available_meals_df # None
             /\ Cardinality(KnownMatching(t, adapter)) >= request[t].top_n) =>
                Len(DirectOutput(t, adapter)) = request[t].top_n

\* C24: every context field that the request does not give is defaulted in
\* get_hybrid_recommendations to hour 18, day monday (no weekend) and the
\* current month, whether the whole context or only some fields are absent
FieldMissing(t, field) ==
    \/ request[t].context = None
    \/ field = "hour" /\ request[t].context.hour = NoHour
    \/ field = "day_of_week" /\ request[t].context.day_of_week = NoDay
    \/ field = "month" /\ request[t].context.month = NoMonth
ClaimedFeatures(t) ==
    <<IF FieldMissing(t, "hour") THEN 18 ELSE request[t].context.hour,
      IF FieldMissing(t, "day_of_week") THEN 0
      ELSE IF request[t].context.day_of_week \in {"saturday", "sunday"} THEN 1 ELSE 0,
      IF FieldMissing(t, "month") THEN now.month ELSE request[t].context.month>>
C24_HybridContextDefaults ==
    \A t \in Threads :
        (Answered(t) /\ hybrid_model = HybridContextual) =>
            \A i \in 1..Len(hybrid_recs[t]) :
                hybrid_recs[t][i].score = FeatureCode(ClaimedFeatures(t))

\* C25: after load_models the raw count of a meal is the number of its usage
\* events whose date can be parsed, whatever their age
ParseableEvents(m) ==
    Cardinality({i \in 1..Len(files.history.events) :
                    /\ files.history.events[i].meal_id = m
                    /\ files.history.events[i].date_ok})
C25_RawCount ==
    (models_loaded /\ files.history # None) =>
        \A m \in Meals : DictGet(meal_usage_counts, m, 0) = ParseableEvents(m)

\* C26: a load leaves every recency score non-negative, and a meal without an
\* event inside the window of 180 days in the history just loaded has score 0
EventsInWindow(h, m) ==
    IF h = None THEN {}
    ELSE {i \in 1..Len(h.events) :
             /\ h.events[i].meal_id = m
             /\ h.events[i].date_ok
             /\ h.events[i].days_ago <= 180}
UsagePopularityInvariant ==
    \A m \in Meals :
        /\ DictGet(meal_usage_scores, m, 0) >= 0
        /\ EventsInWindow(files.history, m) = {} => DictGet(meal_usage_scores, m, 0) = 0
C26_UsagePopularity == [][load_calls' # load_calls => UsagePopularityInvariant']_vars

\* C27: the popular adapter reports the raw count as score exactly when no
\* usage event lies inside the window and some raw count is positive, and the
\* recency score otherwise
WindowEmpty == files.history = None \/ RecentEvents(files.history.events) = <<>>
ReportedScores(t, fallback) ==
    \A i \in 1..Len(popular_recs[t]) :
        popular_recs[t][i].score =
            IF fallback THEN DictGet(meal_usage_counts, popular_recs[t][i].meal_id, 0)
            ELSE DictGet(meal_usage_scores, popular_recs[t][i].meal_id, 0)
C27_CountFallback ==
    \A t \in Threads :
        PopularOnly(t) =>
            ReportedScores(t, WindowEmpty /\ \E m \in DOMAIN meal_usage_counts :
                                                meal_usage_counts[m] > 0)
\* C27 as amended: the fallback applies exactly when no meal of the catalog has
\* a recency score and some meal of the catalog has a positive raw count
CatalogIds == {r.meal_id : r \in Range(available_meals_df.rows)}
C27_CountFallbackOverCatalog ==
    \A t \in Threads :
        (PopularOnly(t) /\ available_meals_df # None) =>
            ReportedScores(t, /\ \A m \in CatalogIds : DictGet(meal_usage_scores, m, 0) = 0
                              /\ \E m \in CatalogIds : DictGet(meal_usage_counts, m, 0) > 0)
\* an event lies inside the window, for a meal that is not in the catalog, and
\* a meal of the catalog is reported with its raw count
C27_Witness ==
    \E t \in Threads :
        /\ PopularOnly(t)
        /\ ~WindowEmpty
        /\ \E i \in 1..Len(popular_recs[t]) :
              /\ popular_recs[t][i].score > 0
              /\ popular_recs[t][i].score =
                     DictGet(meal_usage_counts, popular_recs[t][i].meal_id, 0)
              /\ DictGet(meal_usage_scores, popular_recs[t][i].meal_id, 0) = 0

\* C28: models_used is exactly the set of tags of the recommendations of the
\* answer, which are the first top_n candidates collected with distinct
\* meal_ids, in the order they were collected
RECURSIVE IsSubsequence(_, _)
IsSubsequence(a, b) ==
    IF a = <<>> THEN TRUE
    ELSE IF b = <<>> THEN FALSE
    ELSE IF Head(a) = Head(b) THEN IsSubsequence(Tail(a), Tail(b))
    ELSE IsSubsequence(a, Tail(b))
C28_ProvenanceSummary ==
    \A t \in Threads :
        Answered(t) =>
            /\ response[t].models_used =
                   {Final(t)[i].recommendation_type : i \in 1..Len(Final(t))}
            /\ response[t].total_count = Len(Final(t))
            /\ IsSubsequence(Final(t), all_recommendations[t])
            /\ \A tag \in Range(StrategyTags) :
                   (\A i \in 1..Len(Final(t)) : Final(t)[i].recommendation_type # tag) =>
                       tag \notin response[t].models_used
\* the popular strategy contributed candidates, all of them duplicates of
\* earlier ones, and is not listed
C28_Witness ==
    \E t \in Threads :
        /\ Answered(t)
        /\ popular_recs[t] # <<>>
        /\ Final(t) # <<>>
        /\ "popular" \notin response[t].models_used

\* C29: after a load the engine state is determined by the artifacts present
\* at that load alone: a missing artifact leaves its container None and the
\* usage maps empty
LatestLoadState ==
    /\ available_meals_df = files.meals
    /\ meal_usage_counts = IF files.history = None THEN EmptyDict
                           ELSE ValueCounts(files.history.events)
    /\ meal_usage_scores = IF files.history = None THEN EmptyDict
                           ELSE LoadedUsageScores(files.history.events, EmptyDict)
    /\ content_similarity_matrix = files.content_similarity_matrix
    /\ meal_ids = files.meal_ids
    /\ cf_model = files.cf_model
    /\ cf_dataset = files.cf_dataset
    /\ hybrid_model = files.hybrid_model
C29_LatestLoadOnly ==
    [][(load_calls' # load_calls /\ models_loaded') => LatestLoadState']_vars

\* C30: every meal_id of an answer is the meal_id of an entry of the loaded
\* catalog
C30_CatalogMembership ==
    \A t \in Threads :
        (Answered(t) /\ available_meals_df # None) => Ids(Final(t)) \subseteq CatalogIds
====
